---- MODULE Spec2Model ----
(***************************************************************************)
(* A model of the plotscript interpreter kernel: Atom (atom.cpp),          *)
(* Expression and its evaluator (expression.cpp) and the threaded REPL     *)
(* (Producer, Consumer and repl of the command-line front end).           *)
(*                                                                         *)
(* Text is modelled as a sequence of chunks: the double quote is a chunk   *)
(* of its own and every other chunk stands for a run of non-quote bytes,   *)
(* so that Atom::asSymbol (which erases the quotes) and Atom::isString     *)
(* (which looks at the first byte) are computed as the code computes them. *)
(* Doubles are modelled as integers in units of 1/1000.                    *)
(***************************************************************************)
EXTENDS Integers, Sequences, FiniteSets, TLC

\* ------------------------------------------------------------------ bounds

\* longest tail of a generated begin form
MaxBegin == 3
\* longest list a generated map form iterates over
MaxList == 3
\* number of lines the REPL reader reads before the end of input
MaxLines == 3

\* children of a lambda form
MaxLambda == 3

\* bytes of a token
MaxToken == 3

\* ------------------------------------------------------------------ Atom

Q == "\""

NoneAtom == [kind |-> "NoneKind", num |-> 0, im |-> 0, text |-> <<>>]

\* Atom::Atom(double): units of 1/1000
NumberAtom(n) == [kind |-> "NumberKind", num |-> n, im |-> 0, text |-> <<>>]

Num(n) == NumberAtom(n * 1000)

\* Atom::Atom(std::complex<double>)
ComplexAtom(re, imag) == [kind |-> "ComplexKind", num |-> re, im |-> imag, text |-> <<>>]

\* Atom::Atom(const std::string &): symbols and strings share SymbolKind
SymbolAtom(t) == [kind |-> "SymbolKind", num |-> 0, im |-> 0, text |-> t]

\* the symbol whose text is s, and the string literal "s" (stored with its quotes)
Sym(s) == SymbolAtom(<<s>>)

Str(s) == SymbolAtom(<<Q, s, Q>>)

\* stringValue[0]: the first byte, or the terminating 0 of an empty string
FirstByte(t) == IF Len(t) = 0 THEN "" ELSE t[1]

isNumber(a) == a.kind = "NumberKind"

isComplex(a) == a.kind = "ComplexKind"

isSymbol(a) == a.kind = "SymbolKind" /\ FirstByte(a.text) # Q

isString(a) == a.kind = "SymbolKind" /\ FirstByte(a.text) = Q

NotQuote(c) == c # Q

\* Atom::asSymbol: the text with every double quote erased; empty for a non-symbol kind
asSymbol(a) == IF a.kind = "SymbolKind" THEN SelectSeq(a.text, NotQuote) ELSE <<>>

\* Atom::asString of a symbol or string: the stored text, quotes kept
asString(a) == IF a.kind = "SymbolKind" THEN a.text ELSE <<>>

\* the decimal digits of a natural number, one byte each
DigitChars == <<"0", "1", "2", "3", "4", "5", "6", "7", "8", "9">>

RECURSIVE Digits(_)
Digits(n) ==
    IF n < 10 THEN <<DigitChars[n + 1]>>
    ELSE Append(Digits(n \div 10), DigitChars[(n % 10) + 1])

Abs(n) == IF n < 0 THEN 0 - n ELSE n

\* the three digits of the thousandths
Thousandths(n) ==
    <<DigitChars[(n \div 100) + 1], DigitChars[((n \div 10) % 10) + 1], DigitChars[(n % 10) + 1]>>

\* std::to_string(double), the format %f: six digits after the point
to_string(n) ==
    (IF n < 0 THEN <<"-">> ELSE <<>>) \o Digits(Abs(n) \div 1000) \o <<".">>
        \o Thousandths(Abs(n) % 1000) \o <<"0", "0", "0">>

IsDigit(c) == \E i \in 1..10 : DigitChars[i] = c

DigitValue(c) == (CHOOSE i \in 1..10 : DigitChars[i] = c) - 1

RECURSIVE Pow10(_)
Pow10(k) == IF k <= 0 THEN 1 ELSE 10 * Pow10(k - 1)

\* operator>>(double &) on the token: the bytes a floating-point literal may
\* hold are taken one by one (a sign first, digits, one point, an exponent
\* mark after a digit, a sign right after the mark); where the scan stands
\* after byte c, or "stop" when c is not taken
NextState(s, c) ==
    IF IsDigit(c)
    THEN (IF s \in {"start", "sign", "int"} THEN "int"
          ELSE IF s \in {"dot", "frac"} THEN "frac" ELSE "edig")
    ELSE IF c \in {"+", "-"}
    THEN (IF s = "start" THEN "sign" ELSE IF s = "e" THEN "esign" ELSE "stop")
    ELSE IF c = "."
    THEN (IF s \in {"start", "sign"} THEN "dot" ELSE IF s = "int" THEN "frac" ELSE "stop")
    ELSE IF c \in {"e", "E"}
    THEN (IF s \in {"int", "frac"} THEN "e" ELSE "stop")
    ELSE "stop"

\* what the scan has read: the sign, the digits of the mantissa as one number,
\* the count of those after the point, the sign and value of the exponent
Taken(acc, s, ns, c) ==
    IF IsDigit(c)
    THEN (IF ns = "int" THEN [acc EXCEPT !.mant = 10 * @ + DigitValue(c)]
          ELSE IF ns = "frac"
          THEN [acc EXCEPT !.mant = 10 * @ + DigitValue(c), !.fd = @ + 1]
          ELSE [acc EXCEPT !.ex = 10 * @ + DigitValue(c)])
    ELSE IF c = "-"
    THEN (IF ns = "sign" THEN [acc EXCEPT !.neg = TRUE] ELSE [acc EXCEPT !.eneg = TRUE])
    ELSE acc

RECURSIVE Extract(_, _, _, _)
Extract(t, i, s, acc) ==
    IF i > Len(t) THEN [state |-> s, n |-> i - 1, acc |-> acc]
    ELSE LET ns == NextState(s, t[i])
         IN  IF ns = "stop" THEN [state |-> s, n |-> i - 1, acc |-> acc]
             ELSE Extract(t, i + 1, ns, Taken(acc, s, ns, t[i]))

\* iss >> temp: whether it succeeds (the bytes taken are a complete literal),
\* how many bytes it consumed, and the value read, in units of 1/1000
StreamDouble(t) ==
    LET r == Extract(t, 1, "start", [neg |-> FALSE, mant |-> 0, fd |-> 0,
                                     eneg |-> FALSE, ex |-> 0])
        shift == 3 - r.acc.fd + (IF r.acc.eneg THEN 0 - r.acc.ex ELSE r.acc.ex)
        magnitude == IF shift >= 0 THEN r.acc.mant * Pow10(shift)
                     ELSE r.acc.mant \div Pow10(0 - shift)
    IN  [ok |-> r.state \in {"int", "frac", "edig"},
         consumed |-> r.n,
         value |-> IF r.acc.neg THEN 0 - magnitude ELSE magnitude]

\* Atom::Atom(const Token &)
AtomFromToken(t) ==
    LET r == StreamDouble(t)
    IN  IF r.ok
        THEN (IF r.consumed = Len(t) THEN NumberAtom(r.value) ELSE NoneAtom)
        ELSE IF ~IsDigit(FirstByte(t)) THEN SymbolAtom(t)
        ELSE NoneAtom

\* ------------------------------------------------------------------ Expression

\* Expression::Expression()
NoneExp == [type |-> "None", head |-> NoneAtom, tail |-> <<>>, props |-> {}]

\* Expression::Expression(const Atom &)
Single(a) == [type |-> "Singleton", head |-> a, tail |-> <<>>, props |-> {}]

\* a parsed node: Expression(const Atom &) followed by the children appended to m_tail
Node(h, children) == [type |-> "Singleton", head |-> h, tail |-> children, props |-> {}]

\* Expression::Expression(const std::vector<Expression> &)
ListExp(items) == [type |-> "List", head |-> NoneAtom, tail |-> items, props |-> {}]

\* Expression::Expression(const std::vector<Expression> & args, Expression & func)
LambdaExp(args, func) ==
    [type |-> "Lambda", head |-> NoneAtom, tail |-> <<ListExp(args), func>>, props |-> {}]

\* Expression::Expression(std::string type, const std::vector<Expression> &)
PlotExp(type, data) ==
    [type |-> "Plot", head |-> NoneAtom, tail |-> data,
     props |-> {[k |-> <<"type">>, v |-> Single(Sym(type))]}]

isList(e) == e.type = "List"

isLambda(e) == e.type = "Lambda"

isEmpty(e) == e.type = "None"

\* Expression::__getProperty
getProperty(e, key) ==
    IF \E p \in e.props : p.k = key
    THEN (CHOOSE p \in e.props : p.k = key).v
    ELSE NoneExp

\* a property set only when the key is absent
setProperty_KeepsOld(e, key, value) ==
    IF \E p \in e.props : p.k = key THEN e
    ELSE [e EXCEPT !.props = @ \cup {[k |-> key, v |-> value]}]

\* m_properties.erase(key); m_properties[key] = value
setProperty(e, key, value) ==
    [e EXCEPT !.props = {p \in @ : p.k # key} \cup {[k |-> key, v |-> value]}]

\* ------------------------------------------------------------------ printed text

RECURSIVE StripZeros(_)
StripZeros(ds) ==
    IF ds # <<>> /\ ds[Len(ds)] = "0" THEN StripZeros(SubSeq(ds, 1, Len(ds) - 1)) ELSE ds

\* os << numberValue: the default format, no trailing zeros and no point
\* for a whole number (magnitudes below 10^6)
NumberText(n) ==
    (IF n < 0 THEN <<"-">> ELSE <<>>) \o Digits(Abs(n) \div 1000)
        \o (IF Abs(n) % 1000 = 0 THEN <<>>
            ELSE <<".">> \o StripZeros(Thousandths(Abs(n) % 1000)))

\* Atom::asString for every kind of atom; a complex number is written (re,im)
AtomText(a) ==
    IF a.kind = "SymbolKind" THEN a.text
    ELSE IF a.kind = "NumberKind" THEN NumberText(a.num)
    ELSE IF a.kind = "ComplexKind"
    THEN <<"(">> \o NumberText(a.num) \o <<",">> \o NumberText(a.im) \o <<")">>
    ELSE <<>>

\* operator<<(std::ostream &, const Expression &)
RECURSIVE Written(_), WrittenTail(_, _)
Written(e) ==
    IF isEmpty(e) THEN <<"NONE">>
    ELSE (IF ~isComplex(e.head) THEN <<"(">> ELSE <<>>)
         \o (IF e.type = "Singleton" THEN AtomText(e.head) ELSE <<>>)
         \o WrittenTail(e.tail, 1)
         \o (IF ~isComplex(e.head) THEN <<")">> ELSE <<>>)

WrittenTail(tail, i) ==
    IF i > Len(tail) THEN <<>>
    ELSE Written(tail[i]) \o (IF i + 1 <= Len(tail) THEN <<" ">> ELSE <<>>)
         \o WrittenTail(tail, i + 1)

\* the tokenizer: parentheses are tokens of their own, a double quote opens a
\* string that runs to the closing quote, white space ends a bare token
RECURSIVE Tokenize(_, _, _, _)
Tokenize(text, i, cur, quoted) ==
    LET flush == IF cur = <<>> THEN <<>> ELSE <<cur>>
    IN  IF i > Len(text) THEN flush
        ELSE IF quoted
        THEN (IF text[i] = Q THEN <<Append(cur, Q)>> \o Tokenize(text, i + 1, <<>>, FALSE)
              ELSE Tokenize(text, i + 1, Append(cur, text[i]), TRUE))
        ELSE IF text[i] = Q THEN flush \o Tokenize(text, i + 1, <<Q>>, TRUE)
        ELSE IF text[i] \in {"(", ")"}
        THEN flush \o <<<<text[i]>>>> \o Tokenize(text, i + 1, <<>>, FALSE)
        ELSE IF text[i] = " " THEN flush \o Tokenize(text, i + 1, <<>>, FALSE)
        ELSE Tokenize(text, i + 1, Append(cur, text[i]), FALSE)

\* the parser, expr := atom | '(' expr* ')': the index after the expression
\* that starts at token i, or 0 where there is none; an empty list () and a
\* token that makes no atom are errors
RECURSIVE ParseExpr(_, _), ParseTail(_, _, _)
ParseExpr(toks, i) ==
    IF i > Len(toks) THEN 0
    ELSE IF toks[i] = <<"(">> THEN ParseTail(toks, i + 1, 0)
    ELSE IF toks[i] = <<")">> THEN 0
    ELSE IF AtomFromToken(toks[i]) = NoneAtom THEN 0
    ELSE i + 1

ParseTail(toks, i, n) ==
    IF i > Len(toks) THEN 0
    ELSE IF toks[i] = <<")">> THEN (IF n = 0 THEN 0 ELSE i + 1)
    ELSE LET j == ParseExpr(toks, i)
         IN  IF j = 0 THEN 0 ELSE ParseTail(toks, j, n + 1)

\* the parser's verdict on a text: it holds exactly one expression
Accepted(text) ==
    LET toks == Tokenize(text, 1, <<>>, FALSE)
    IN  ParseExpr(toks, 1) = Len(toks) + 1

\* ------------------------------------------------------------------ Environment

\* an environment entry: a built-in procedure or a bound expression
ProcEntry(name) == [type |-> "proc", proc |-> name, exp |-> NoneExp]

ExpEntry(e) == [type |-> "exp", proc |-> "", exp |-> e]

PiValue == 3142

EulerValue == 2718

\* Environment::reset: the built-in procedures and the constants pi, e, I
DefaultEnv ==
    (<<"+">> :> ProcEntry("add")) @@ (<<"-">> :> ProcEntry("subneg")) @@
    (<<"list">> :> ProcEntry("list")) @@
    (<<"make-point">> :> ProcEntry("make-point")) @@
    (<<"make-line">> :> ProcEntry("make-line")) @@
    (<<"pi">> :> ExpEntry(Single(NumberAtom(PiValue)))) @@
    (<<"e">> :> ExpEntry(Single(NumberAtom(EulerValue)))) @@
    (<<"I">> :> ExpEntry(Single(ComplexAtom(0, 1000))))

is_known(env, a) == isSymbol(a) /\ asSymbol(a) \in DOMAIN env

is_proc(env, a) == is_known(env, a) /\ env[asSymbol(a)].type = "proc"

is_exp(env, a) == is_known(env, a) /\ env[asSymbol(a)].type = "exp"

\* the bound expression, or a None Expression when the symbol is not bound to one
get_exp(env, a) == IF is_exp(env, a) THEN env[asSymbol(a)].exp ELSE NoneExp

get_proc(env, a) == env[asSymbol(a)].proc

\* binds or rebinds
add_exp(env, a, e) ==
    [n \in DOMAIN env \cup {asSymbol(a)} |->
        IF n = asSymbol(a) THEN ExpEntry(e) ELSE env[n]]

\* unconditionally rebinds in the current scope
shadowing_helper(env, a, e) == add_exp(env, a, e)

\* ------------------------------------------------------------------ outcomes

\* The state an evaluation runs in: the environment, the interrupt flag, and
\* the bookkeeping of the steps taken: clock counts the steps (entries of
\* Expression::eval and calls of apply), intAt is the step before which the
\* signal handler sets the flag (-1: never), depth the nesting of eval, and
\* trace the steps in order.
EvalState(env, flag, intAt) ==
    [env |-> env, flag |-> flag, intAt |-> intAt, clock |-> 0, depth |-> 0, trace |-> <<>>]

\* a returned Expression
Ret(v, st) == [kind |-> "value", val |-> v, err |-> "", st |-> st]

\* throw SemanticError(msg)
Throw(msg, st) == [kind |-> "throw", val |-> NoneExp, err |-> msg, st |-> st]

\* an out-of-bounds access of m_tail: the behaviour is undefined
Undefined(st) == [kind |-> "undefined", val |-> NoneExp, err |-> "", st |-> st]

\* one step: the signal handler may have run before it; the step is recorded
Step(st, ev, e) ==
    [st EXCEPT !.flag = IF st.clock = st.intAt THEN 1 ELSE @,
               !.clock = @ + 1,
               !.trace = Append(@, [ev |-> ev, depth |-> st.depth, clock |-> st.clock, exp |-> e])]

InterruptMsg == "Error: interpreter kernal interupted"

\* ------------------------------------------------------------------ built-in procedures

isNumeric(e) == isNumber(e.head) \/ isComplex(e.head)

RECURSIVE SumRe(_), SumIm(_)
SumRe(args) == IF Len(args) = 0 THEN 0 ELSE Head(args).head.num + SumRe(Tail(args))

SumIm(args) == IF Len(args) = 0 THEN 0 ELSE Head(args).head.im + SumIm(Tail(args))

NumericResult(re, imag, complex) ==
    IF complex THEN Single(ComplexAtom(re, imag)) ELSE Single(NumberAtom(re))

\* Expression::checkProperty: the property under the quoted key is the quoted value
checkProperty(e, key, value) == getProperty(e, asString(Str(key))) = Single(Str(value))

isPoint(e) == isList(e) /\ checkProperty(e, "object-name", "point")

\* the procedure table: + (any arity), - (one or two arguments), list (any
\* arity), make-point (two numbers), make-line (two points)
Procedure(name, args, st) ==
    LET anyComplex == \E i \in 1..Len(args) : isComplex(args[i].head)
        allNumeric == \A i \in 1..Len(args) : isNumeric(args[i])
    IN  IF name = "list" THEN Ret(ListExp(args), st)
        ELSE IF name = "make-point"
        THEN IF Len(args) # 2 \/ ~allNumeric \/ anyComplex
             THEN Throw("Error in call to make-point: invalid arguments", st)
             ELSE Ret(setProperty(setProperty(ListExp(args),
                          asString(Str("object-name")), Single(Str("point"))),
                          asString(Str("size")), Single(Num(0))), st)
        ELSE IF name = "make-line"
        THEN IF Len(args) # 2 \/ \E i \in 1..Len(args) : ~isPoint(args[i])
             THEN Throw("Error in call to make-line: invalid arguments", st)
             ELSE Ret(setProperty(setProperty(ListExp(args),
                          asString(Str("object-name")), Single(Str("line"))),
                          asString(Str("thickness")), Single(Num(1))), st)
        ELSE IF ~allNumeric
        THEN Throw("Error in call to procedure: argument not a number", st)
        ELSE IF name = "add"
        THEN Ret(NumericResult(SumRe(args), SumIm(args), anyComplex), st)
        ELSE IF Len(args) = 1
        THEN Ret(NumericResult(0 - args[1].head.num, 0 - args[1].head.im, anyComplex), st)
        ELSE IF Len(args) = 2
        THEN Ret(NumericResult(args[1].head.num - args[2].head.num,
                               args[1].head.im - args[2].head.im, anyComplex), st)
        ELSE Throw("Error in call to subtraction or negation: invalid number of arguments", st)

\* ------------------------------------------------------------------ evaluator

RECURSIVE eval(_, _), apply(_, _, _), EvalEach(_, _, _), BeginLoop(_, _, _),
          BeginLoop_Reversed(_, _, _), MapLoop(_, _, _, _), MapLoop_Swallows(_, _, _, _),
          MapLoop_KeepsTemp(_, _, _, _), handle_list(_, _), handle_begin(_, _),
          handle_define(_, _), handle_apply(_, _), handle_map(_, _),
          handle_set_property(_, _), handle_get_property(_, _),
          handle_discrete_plot(_, _), handle_cont_plot(_, _)

\* Expression::handle_lookup
handle_lookup(head, st) ==
    IF isSymbol(head)
    THEN IF is_exp(st.env, head)
         THEN Ret(get_exp(st.env, head), st)
         ELSE Throw("Error during handle lookup: unknown symbol", st)
    ELSE IF isNumber(head) \/ isComplex(head) \/ isString(head)
    THEN Ret(Single(head), st)
    ELSE Throw("Error during handle lookup: Invalid type in terminal expression", st)

\* the loop of handle_list and of the call path of eval: the children are
\* evaluated first to last, and the first failure ends the loop
EvalEach(items, st, acc) ==
    IF Len(items) = 0 THEN Ret(ListExp(acc), st)
    ELSE LET r == eval(Head(items), st)
         IN  IF r.kind # "value" THEN r
             ELSE EvalEach(Tail(items), r.st, Append(acc, r.val))

\* Expression::handle_list
handle_list(exp, st) == EvalEach(exp.tail, st, <<>>)

\* the loop of handle_begin run from the last child to the first
BeginLoop_Reversed(items, st, result) ==
    IF Len(items) = 0 THEN Ret(result, st)
    ELSE LET r == eval(items[Len(items)], st)
         IN  IF r.kind # "value" THEN r
             ELSE BeginLoop_Reversed(SubSeq(items, 1, Len(items) - 1), r.st, r.val)

\* the loop of handle_begin: result = it->eval(env)
BeginLoop(items, st, result) ==
    IF Len(items) = 0 THEN Ret(result, st)
    ELSE LET r == eval(Head(items), st)
         IN  IF r.kind # "value" THEN r
             ELSE BeginLoop(Tail(items), r.st, r.val)

\* handle_begin working on a copy of the environment that it commits only when
\* every child succeeded
handle_begin_Transactional(exp, st) ==
    LET r == BeginLoop(exp.tail, st, NoneExp)
    IN  IF r.kind # "value" THEN [r EXCEPT !.st.env = st.env] ELSE r

\* Expression::handle_begin
handle_begin(exp, st) == BeginLoop(exp.tail, st, NoneExp)

\* the names handle_define refuses as special forms, and as built-in symbols
RefusedForms == {<<"define">>, <<"begin">>, <<"lambda">>, <<"list">>}

RefusedSymbols == {<<"pi">>, <<"e">>, <<"I">>}

\* Expression::handle_define
handle_define(exp, st) ==
    IF Len(exp.tail) # 2
    THEN Throw("Error during handle define: invalid number of arguments to define", st)
    ELSE IF ~isSymbol(exp.tail[1].head)
    THEN Throw("Error during handle define: first argument to define not symbol", st)
    ELSE IF asSymbol(exp.tail[1].head) \in RefusedForms
    THEN Throw("Error during handle define: attempt to redefine a special-form", st)
    ELSE IF is_proc(st.env, exp.tail[1].head)
    THEN Throw("Error during handle define: attempt to redefine a built-in procedure", st)
    ELSE IF asSymbol(exp.tail[1].head) \in RefusedSymbols
    THEN Throw("Error during handle define: attempt to redefine a built-in symbol", st)
    ELSE LET r == eval(exp.tail[2], st)
         IN  IF r.kind # "value" THEN r
             ELSE Ret(r.val, [r.st EXCEPT !.env = add_exp(@, exp.tail[1].head, r.val)])

\* Expression::handle_lambda; m_tail[1] of a form with one child is out of bounds
handle_lambda(exp, st) ==
    IF Len(exp.tail) < 2 THEN Undefined(st)
    ELSE Ret(LambdaExp(<<Single(exp.tail[1].head)>> \o exp.tail[1].tail, exp.tail[2]), st)

\* the parameters of the template are shadowed by the arguments, in order
RECURSIVE ShadowAll(_, _, _)
ShadowAll(env, params, args) ==
    IF Len(params) = 0 THEN env
    ELSE ShadowAll(shadowing_helper(env, Head(params).head, Head(args)),
                   Tail(params), Tail(args))

\* apply with the arguments bound to the parameters in reverse order
apply_ArgsReversed(op, args, st0) ==
    LET st == Step(st0, "apply", Node(op, args))
    IN  IF isLambda(get_exp(st.env, op))
        THEN LET lambda == get_exp(st.env, op)
                 arg_template == lambda.tail[1]
                 reversed == [i \in 1..Len(args) |-> args[Len(args) + 1 - i]]
             IN  IF Len(args) # Len(arg_template.tail)
                 THEN Throw("Error: during apply: Error in call to procedure: invalid number of arguments.", st)
                 ELSE LET inner_scope == ShadowAll(st.env, arg_template.tail, reversed)
                          r == eval(lambda.tail[Len(lambda.tail)],
                                    [st EXCEPT !.env = inner_scope])
                      IN  [r EXCEPT !.st.env = st.env]
        ELSE IF ~isSymbol(op)
        THEN Throw("Error during evaluation: not a symbol", st)
        ELSE IF ~is_proc(st.env, op)
        THEN Throw("Error during evaluation: symbol does not name a procedure", st)
        ELSE Procedure(get_proc(st.env, op), args, st)

\* apply with the parameters bound in the caller's environment itself
apply_InCallerScope(op, args, st0) ==
    LET st == Step(st0, "apply", Node(op, args))
    IN  IF isLambda(get_exp(st.env, op))
        THEN LET lambda == get_exp(st.env, op)
                 arg_template == lambda.tail[1]
             IN  IF Len(args) # Len(arg_template.tail)
                 THEN Throw("Error: during apply: Error in call to procedure: invalid number of arguments.", st)
                 ELSE eval(lambda.tail[Len(lambda.tail)],
                           [st EXCEPT !.env = ShadowAll(st.env, arg_template.tail, args)])
        ELSE IF ~isSymbol(op)
        THEN Throw("Error during evaluation: not a symbol", st)
        ELSE IF ~is_proc(st.env, op)
        THEN Throw("Error during evaluation: symbol does not name a procedure", st)
        ELSE Procedure(get_proc(st.env, op), args, st)

\* apply(const Atom & op, const std::vector<Expression> & args, const Environment & env)
apply(op, args, st0) ==
    LET st == Step(st0, "apply", Node(op, args))
    IN  IF isLambda(get_exp(st.env, op))
        THEN LET lambda == get_exp(st.env, op)
                 arg_template == lambda.tail[1]
             IN  IF Len(args) # Len(arg_template.tail)
                 THEN Throw("Error: during apply: Error in call to procedure: invalid number of arguments.", st)
                 ELSE LET inner_scope == ShadowAll(st.env, arg_template.tail, args)
                          r == eval(lambda.tail[Len(lambda.tail)],
                                    [st EXCEPT !.env = inner_scope])
                      IN  [r EXCEPT !.st.env = st.env]
        ELSE IF ~isSymbol(op)
        THEN Throw("Error during evaluation: not a symbol", st)
        ELSE IF ~is_proc(st.env, op)
        THEN Throw("Error during evaluation: symbol does not name a procedure", st)
        ELSE Procedure(get_proc(st.env, op), args, st)

\* Expression::handle_apply
handle_apply(exp, st) ==
    IF Len(exp.tail) # 2
    THEN Throw("Error during apply: invalid number of arguments", st)
    ELSE IF ~isLambda(get_exp(st.env, exp.tail[1].head))
            /\ (~is_proc(st.env, exp.tail[1].head) \/ Len(exp.tail[1].tail) > 0)
    THEN Throw("Error: first argument to apply not a procedure", st)
    ELSE LET arguments == eval(exp.tail[2], st)
         IN  IF arguments.kind # "value" THEN arguments
             ELSE IF ~isList(arguments.val)
             THEN Throw("Error: second argument to apply not a list", arguments.st)
             ELSE apply(exp.tail[1].head, arguments.val.tail, arguments.st)

\* the loop of handle_map ending at the first call that throws, with the
\* results so far
MapLoop_Swallows(op, items, st, return_args) ==
    IF Len(items) = 0 THEN Ret(ListExp(return_args), st)
    ELSE LET temp_e == apply(op, <<Head(items)>>, st)
         IN  IF temp_e.kind # "value" THEN Ret(ListExp(return_args), temp_e.st)
             ELSE MapLoop_Swallows(op, Tail(items), temp_e.st, Append(return_args, temp_e.val))

\* the loop of handle_map without temp.clear(): the i-th call gets the first i elements
MapLoop_KeepsTemp(op, items, st, return_args) ==
    IF Len(return_args) = Len(items) THEN Ret(ListExp(return_args), st)
    ELSE LET temp_e == apply(op, SubSeq(items, 1, Len(return_args) + 1), st)
         IN  IF temp_e.kind # "value" THEN temp_e
             ELSE MapLoop_KeepsTemp(op, items, temp_e.st, Append(return_args, temp_e.val))

\* the loop of handle_map: one call of apply per element, with that element alone
MapLoop(op, items, st, return_args) ==
    IF Len(items) = 0 THEN Ret(ListExp(return_args), st)
    ELSE LET temp_e == apply(op, <<Head(items)>>, st)
         IN  IF temp_e.kind # "value" THEN temp_e
             ELSE MapLoop(op, Tail(items), temp_e.st, Append(return_args, temp_e.val))

\* Expression::handle_map
handle_map(exp, st) ==
    IF Len(exp.tail) # 2
    THEN Throw("Error during map: invalid number of arguments", st)
    ELSE IF ~isLambda(get_exp(st.env, exp.tail[1].head))
            /\ (~is_proc(st.env, exp.tail[1].head) \/ Len(exp.tail[1].tail) > 0)
    THEN Throw("Error: first argument to map not a procedure", st)
    ELSE LET list_evaled == eval(exp.tail[2], st)
         IN  IF list_evaled.kind # "value" THEN list_evaled
             ELSE IF ~isList(list_evaled.val)
             THEN Throw("Error: second argument to apply not a list", list_evaled.st)
             ELSE MapLoop(exp.tail[1].head, list_evaled.val.tail, list_evaled.st, <<>>)

\* Expression::handle_set_property: the target is evaluated first, then the value
handle_set_property(exp, st) ==
    IF Len(exp.tail) # 3
    THEN Throw("Error invalid number of arguments for set-property.", st)
    ELSE IF ~isString(exp.tail[1].head)
    THEN Throw("Error: first argument to set-property not a string.", st)
    ELSE LET result == eval(exp.tail[3], st)
         IN  IF result.kind # "value" THEN result
             ELSE LET value == eval(exp.tail[2], result.st)
                  IN  IF value.kind # "value" THEN value
                      ELSE Ret(setProperty(result.val, asString(exp.tail[1].head), value.val),
                               value.st)

\* Expression::handle_get_property: the target is evaluated before the key is looked at
handle_get_property(exp, st) ==
    IF Len(exp.tail) # 2
    THEN Throw("Error: invalid number of arguments for get-property.", st)
    ELSE LET target == eval(exp.tail[2], st)
         IN  IF target.kind # "value" THEN target
             ELSE IF ~isString(exp.tail[1].head)
             THEN Throw("Error: first argument to get-property not a string.", target.st)
             ELSE Ret(getProperty(target.val, asString(exp.tail[1].head)), target.st)

\* an abort of the process: a failed assert
Abort(st) == [kind |-> "abort", val |-> NoneExp, err |-> "", st |-> st]

\* the calls of make-point and make-line of handle_discrete_plot, in order: an
\* argument is a number or the result of an earlier call
Lit(n) == [ref |-> 0, val |-> Single(NumberAtom(n))]

Ref(i) == [ref |-> i, val |-> NoneExp]

Call(name, a, b) == [name |-> name, a |-> a, b |-> b]

Arg(a, results) == IF a.ref = 0 THEN a.val ELSE results[a.ref]

RECURSIVE RunCalls(_, _, _)
RunCalls(plan, st, results) ==
    IF Len(plan) = 0 THEN Ret(ListExp(results), st)
    ELSE LET c == Head(plan)
             r == apply(Sym(c.name), <<Arg(c.a, results), Arg(c.b, results)>>, st)
         IN  IF r.kind # "value" THEN r
             ELSE RunCalls(Tail(plan), r.st, Append(results, r.val))

Max(a, b) == IF a > b THEN a ELSE b

Min(a, b) == IF a < b THEN a ELSE b

\* the largest and smallest of the i-th coordinates of the points, from -999 and 999
RECURSIVE CoordMax(_, _), CoordMin(_, _)
CoordMax(points, i) ==
    IF Len(points) = 0 THEN -999000
    ELSE Max(Head(points).tail[i].head.num, CoordMax(Tail(points), i))

CoordMin(points, i) ==
    IF Len(points) = 0 THEN 999000
    ELSE Min(Head(points).tail[i].head.num, CoordMin(Tail(points), i))

\* the nine points and four lines of the bounding box: results 1..13
BoxPlan(xmin, xmax, ymin, ymax) ==
    LET xmiddle == (xmax + xmin) \div 2
        ymiddle == (ymin - ymax) \div 2
    IN  <<Call("make-point", Lit(xmin), Lit(ymax)), Call("make-point", Lit(xmiddle), Lit(ymax)),
          Call("make-point", Lit(xmax), Lit(ymax)), Call("make-point", Lit(xmin), Lit(ymiddle)),
          Call("make-point", Lit(xmiddle), Lit(ymiddle)),
          Call("make-point", Lit(xmax), Lit(ymiddle)),
          Call("make-point", Lit(xmin), Lit(ymin)), Call("make-point", Lit(xmiddle), Lit(ymin)),
          Call("make-point", Lit(xmax), Lit(ymin)),
          Call("make-line", Ref(1), Ref(7)), Call("make-line", Ref(3), Ref(9)),
          Call("make-line", Ref(1), Ref(3)), Call("make-line", Ref(7), Ref(9))>>

\* per data point: the point mirrored in y, the foot of its stem, the stem
\* line: results base+1..base+3
RECURSIVE StemPlan(_, _, _)
StemPlan(points, stembottomy, base) ==
    IF Len(points) = 0 THEN <<>>
    ELSE <<Call("make-point", Lit(Head(points).tail[1].head.num),
                              Lit(0 - Head(points).tail[2].head.num)),
           Call("make-point", Lit(Head(points).tail[1].head.num), Lit(stembottomy)),
           Call("make-line", Ref(base + 1), Ref(base + 2))>>
         \o StemPlan(Tail(points), stembottomy, base + 3)

\* an axis: its two ends and the line between them: results base+1..base+3
AxisPlan(x1, y1, x2, y2, base) ==
    <<Call("make-point", Lit(x1), Lit(y1)), Call("make-point", Lit(x2), Lit(y2)),
      Call("make-line", Ref(base + 1), Ref(base + 2))>>

\* handle_discrete_plot from the labels on: the Plot of the box lines, the
\* labels, the option values, the points with their stems and the axes
DiscreteResult(points, options, extremes, xAxis, yAxis, rest) ==
    IF rest.kind # "value" THEN rest
    ELSE LET r == rest.val.tail
             n == Len(points)
             xBase == 13 + 3 * n
             yBase == IF xAxis THEN xBase + 3 ELSE xBase
             labels == [i \in 1..4 |->
                          Single(SymbolAtom(<<Q>> \o to_string(extremes[i]) \o <<Q>>))]
             result == <<r[10], r[11], r[12], r[13]>> \o labels
                         \o [i \in 1..Len(options) |-> options[i].tail[2]]
                         \o [i \in 1..(2 * n) |->
                               IF i % 2 = 1 THEN r[13 + 3 * ((i + 1) \div 2) - 2]
                               ELSE r[13 + 3 * (i \div 2)]]
                         \o (IF xAxis THEN <<r[xBase + 3]>> ELSE <<>>)
                         \o (IF yAxis THEN <<r[yBase + 3]>> ELSE <<>>)
         IN  Ret(setProperty(setProperty(PlotExp("DP", result),
                     <<"numpoints">>, Single(Num(n))),
                     <<"numoptions">>, Single(Num(Len(options)))), rest.st)

\* handle_discrete_plot from the assert on the bounding box on: the options
\* are read, then the stems and the axes are made; extremes is
\* <<xmin, xmax, ymin, ymax>>
DiscreteStems(points, options, extremes, box) ==
    IF box.kind # "value" THEN box
    ELSE IF ~checkProperty(box.val.tail[10], "object-name", "line") THEN Abort(box.st)
    ELSE IF \E i \in 1..Len(options) : Len(options[i].tail) < 2 THEN Undefined(box.st)
    ELSE LET xmin == extremes[1]
             xmax == extremes[2]
             ymin == extremes[3]
             ymax == extremes[4]
             stembottomy == 0 - Max(0, ymin)
             xAxis == 0 < ymax \/ 0 > ymin
             yAxis == 0 < xmax \/ 0 > xmin
             xBase == 13 + 3 * Len(points)
             yBase == IF xAxis THEN xBase + 3 ELSE xBase
         IN  DiscreteResult(points, options, extremes, xAxis, yAxis,
                 RunCalls(StemPlan(points, stembottomy, 13)
                             \o (IF xAxis THEN AxisPlan(xmax, 0, xmin, 0, xBase) ELSE <<>>)
                             \o (IF yAxis THEN AxisPlan(0, ymax, 0, ymin, yBase) ELSE <<>>),
                          box.st, box.val.tail))

\* the extremes of the coordinates of the points: <<xmin, xmax, ymin, ymax>>
Extremes(points) ==
    <<CoordMin(points, 1), CoordMax(points, 1), CoordMin(points, 2), CoordMax(points, 2)>>

\* the bounding box made for the extremes
DiscreteBox(points, options, extremes, st) ==
    DiscreteStems(points, options, extremes,
                  RunCalls(BoxPlan(extremes[1], extremes[2], extremes[3], extremes[4]),
                           st, <<>>))

\* Expression::handle_discrete_plot
handle_discrete_plot(exp, st) ==
    IF Len(exp.tail) # 2
    THEN Throw("Error: invalid number of arguments for discrete-plot", st)
    ELSE LET DATA == eval(exp.tail[1], st)
         IN  IF DATA.kind # "value" THEN DATA
             ELSE LET OPTIONS == eval(exp.tail[2], DATA.st)
                  IN  IF OPTIONS.kind # "value" THEN OPTIONS
                      ELSE IF ~isList(DATA.val) \/ ~isList(OPTIONS.val)
                      THEN Throw("Error: An argument to discrete-plot is not a list", OPTIONS.st)
                      ELSE IF \E i \in 1..Len(DATA.val.tail) : Len(DATA.val.tail[i].tail) < 2
                      THEN Undefined(OPTIONS.st)
                      ELSE DiscreteBox(DATA.val.tail, OPTIONS.val.tail,
                                       Extremes(DATA.val.tail), OPTIONS.st)

\* Expression::handle_cont_plot: the arity, then the first child must evaluate
\* to a lambda, the second to a list and the third, when present, to a list;
\* the value returned is a default-constructed Expression
handle_cont_plot(exp, st) ==
    IF Len(exp.tail) # 2 /\ Len(exp.tail) # 3
    THEN Throw("Error: invalid number of arguments for continuous plot", st)
    ELSE LET func == eval(exp.tail[1], st)
         IN  IF func.kind # "value" THEN func
             ELSE IF ~isLambda(func.val)
             THEN Throw("Error: first argument to continuous plot not a lambda", func.st)
             ELSE LET bounds == eval(exp.tail[2], func.st)
                  IN  IF bounds.kind # "value" THEN bounds
                      ELSE IF ~isList(bounds.val)
                      THEN Throw("Error: second argument to continuous plot not a list",
                                 bounds.st)
                      ELSE IF Len(exp.tail) = 2 THEN Ret(NoneExp, bounds.st)
                      ELSE LET options == eval(exp.tail[3], bounds.st)
                           IN  IF options.kind # "value" THEN options
                               ELSE IF ~isList(options.val)
                               THEN Throw("Error: third argument to continuous plot not a list",
                                          options.st)
                               ELSE Ret(NoneExp, options.st)

\* the dispatch of Expression::eval on the head, after the poll of the flag
Dispatch(exp, st) ==
    LET s == asSymbol(exp.head)
    IN  IF s = <<"list">> THEN handle_list(exp, st)
        ELSE IF Len(exp.tail) = 0 THEN handle_lookup(exp.head, st)
        ELSE IF s = <<"begin">> THEN handle_begin(exp, st)
        ELSE IF s = <<"define">> THEN handle_define(exp, st)
        ELSE IF s = <<"lambda">> THEN handle_lambda(exp, st)
        ELSE IF s = <<"apply">> THEN handle_apply(exp, st)
        ELSE IF s = <<"map">> THEN handle_map(exp, st)
        ELSE IF s = <<"set-property">> THEN handle_set_property(exp, st)
        ELSE IF s = <<"get-property">> THEN handle_get_property(exp, st)
        ELSE IF s = <<"discrete-plot">> THEN handle_discrete_plot(exp, st)
        ELSE IF s = <<"continuous-plot">> THEN handle_cont_plot(exp, st)
        ELSE LET results == EvalEach(exp.tail, st, <<>>)
             IN  IF results.kind # "value" THEN results
                 ELSE apply(exp.head, results.val.tail, results.st)

\* the poll with a threshold that the flag, once set, does not exceed
Interrupted_WrongThreshold(st) == st.flag > 1

\* whether eval, entered in state st, finds the flag set
Interrupted(st) == st.flag > 0

\* Expression::eval: the flag is polled, then the head is dispatched on
eval(exp, st0) ==
    LET polled == [st0 EXCEPT !.flag = IF st0.clock = st0.intAt THEN 1 ELSE @]
    IN  IF Interrupted(polled)
        THEN Throw(InterruptMsg, Step(st0, "interrupted", exp))
        ELSE LET entered == [Step(st0, "eval", exp) EXCEPT !.depth = @ + 1]
                 r == Dispatch(exp, entered)
             IN  [r EXCEPT !.st.depth = st0.depth]

\* ------------------------------------------------------------------ inputs

Leaf(a) == Node(a, <<>>)

Form(name, children) == Node(Sym(name), children)

Define(name, value) == Form("define", <<Leaf(Sym(name)), value>>)

\* (lambda (x) x), (lambda (x) (define y x)), (lambda (pi x) (begin (define x pi) (+ x pi)))
LambdaId == Form("lambda", <<Form("x", <<>>), Leaf(Sym("x"))>>)

LambdaDefine == Form("lambda", <<Form("x", <<>>), Define("y", Leaf(Sym("x")))>>)

LambdaShadow ==
    Form("lambda", <<Form("pi", <<Leaf(Sym("x"))>>),
                     Form("begin", <<Define("x", Leaf(Sym("pi"))),
                                     Form("+", <<Leaf(Sym("x")), Leaf(Sym("pi"))>>)>>)>>)

\* (lambda (begin) (begin)): inside it the symbol begin is bound
LambdaBegin == Form("lambda", <<Form("begin", <<>>), Form("begin", <<>>)>>)

\* the value a lambda form evaluates to
LambdaValue(form) == handle_lambda(form, EvalState(DefaultEnv, 0, -1)).val

\* environments an evaluation may start in: the default one, and one in which
\* the startup program has bound x, f, g, h and k
StartupEnv ==
    add_exp(add_exp(add_exp(add_exp(add_exp(DefaultEnv,
        Sym("x"), Single(Num(1))),
        Sym("f"), LambdaValue(LambdaId)),
        Sym("g"), LambdaValue(LambdaDefine)),
        Sym("h"), LambdaValue(LambdaShadow)),
        Sym("k"), LambdaValue(LambdaBegin))

\* the environment after the startup program also bound p by
\* (define p (set-property "k" 1 (list 1)))
PropertyEnv ==
    add_exp(StartupEnv, Sym("p"),
            setProperty(ListExp(<<Single(Num(1))>>), asString(Str("k")), Single(Num(1))))

Envs == {DefaultEnv, StartupEnv, PropertyEnv}

\* the sequences over S of length 0..n
SeqsUpTo(S, n) == UNION {[1..k -> S] : k \in 0..n}

LeafAtoms ==
    {Num(1), Num(2), ComplexAtom(1000, 2000), NoneAtom,
     Str("a"), Str("list"), Str("begin"), Str("x"),
     Sym("x"), Sym("y"), Sym("f"), Sym("pi"), Sym("I"), Sym("+"),
     Sym("list"), Sym("begin"), Sym("define")}

Leaves == {Leaf(a) : a \in LeafAtoms}

SpecialForms ==
    {"begin", "define", "lambda", "list", "apply", "map", "set-property",
     "get-property", "discrete-plot", "continuous-plot"}

DefineNames == SpecialForms \cup {"+", "-", "pi", "e", "I", "x", "y"}

DefineValues == {Leaf(Num(2)), Leaf(Sym("x")), Leaf(Sym("z")), LambdaId}

DefineForms ==
    {Define(n, v) : n \in DefineNames, v \in DefineValues}
    \cup {Form("define", <<Leaf(Str("x")), Leaf(Num(2))>>),
          Form("define", <<Leaf(Num(1)), Leaf(Num(2))>>),
          Form("define", <<Leaf(Sym("x"))>>),
          Form("define", <<Leaf(Sym("x")), Leaf(Num(1)), Leaf(Num(2))>>)}

BeginChildren ==
    {Leaf(Num(1)), Leaf(Sym("x")), Leaf(Sym("z")),
     Define("x", Leaf(Num(2))), Define("y", Leaf(Sym("x"))), Define("pi", Leaf(Num(1)))}

BeginForms == {Form("begin", c) : c \in SeqsUpTo(BeginChildren, MaxBegin)}

\* the lexical scoping example: (begin (define x 1) (define f (lambda (x) x)) (f 2))
ScopingExample ==
    Form("begin", <<Define("x", Leaf(Num(1))), Define("f", LambdaId),
                    Form("f", <<Leaf(Num(2))>>)>>)

CallArgs == {Leaf(Num(1)), Leaf(Num(2)), Leaf(Sym("x"))}

CallForms ==
    {Form(f, a) : f \in {"f", "g", "h", "k", "+", "-", "x", "nosuch"}, a \in SeqsUpTo(CallArgs, 2)}
    \cup {Node(Num(1), <<Leaf(Num(2))>>), Node(Str("f"), <<Leaf(Num(2))>>)}

MapForms ==
    {Form("map", <<Leaf(Sym(op)), Form("list", items)>>) :
        op \in {"-", "+", "f", "g", "nosuch"},
        items \in SeqsUpTo({Leaf(Num(1)), Leaf(Num(2))}, MaxList)}
    \cup {Form("map", <<Leaf(Sym("f")), Leaf(Num(1))>>),
          Form("map", <<Leaf(Sym("f"))>>)}

\* children of lambda forms: the parameter lists (x) and (x y), the bodies x and (define y x)
LambdaChildren ==
    {Form("x", <<>>), Form("x", <<Leaf(Sym("y"))>>), Leaf(Sym("x")),
     Define("y", Leaf(Sym("x")))}

\* lambda forms with 0..MaxLambda children
LambdaForms == {Form("lambda", c) : c \in SeqsUpTo(LambdaChildren, MaxLambda)}

\* first children of apply forms: names of built-in procedures, of lambdas, of
\* a number, of nothing, of a special form, and the forms (f 1) and (+ 1)
ApplyOperators ==
    {Leaf(Sym(op)) : op \in {"+", "-", "f", "h", "x", "nosuch", "define"}}
    \cup {Form("f", <<Leaf(Num(1))>>), Form("+", <<Leaf(Num(1))>>), Leaf(Num(1))}

\* second children of apply forms: list forms, and a number, a bound number,
\* an unbound symbol
ApplyArguments ==
    {Form("list", items) :
        items \in SeqsUpTo({Leaf(Num(1)), Leaf(Num(2)), Leaf(Sym("z"))}, 2)}
    \cup {Leaf(Num(2)), Leaf(Sym("x")), Leaf(Sym("z"))}

ApplyForms ==
    {Form("apply", <<op, args>>) : op \in ApplyOperators, args \in ApplyArguments}
    \cup {Form("apply", <<Leaf(Sym("+"))>>),
          Form("apply", <<Leaf(Sym("+")), Form("list", <<Leaf(Num(1))>>), Leaf(Num(2))>>)}

SetProperty(key, value, target) == Form("set-property", <<Leaf(key), value, target>>)

GetProperty(key, target) == Form("get-property", <<Leaf(key), target>>)

PropertyKeys == {Str("k"), Str("j")}

\* targets without a set-property form: a number, a list form, a bound list
\* that has a property (p), an unbound symbol
PropertyTargets ==
    {Leaf(Num(1)), Form("list", <<Leaf(Num(1))>>), Leaf(Sym("p")), Leaf(Sym("z"))}

\* set-property forms nested up to two deep
SetForms1 ==
    {SetProperty(key, value, target) :
        key \in PropertyKeys,
        value \in {Leaf(Num(2)), Form("list", <<Leaf(Num(2))>>)},
        target \in PropertyTargets}

SetForms2 ==
    {SetProperty(key, value, target) :
        key \in PropertyKeys, value \in {Leaf(Num(3)), Leaf(Sym("x"))}, target \in SetForms1}

GetForms ==
    {GetProperty(key, target) :
        key \in PropertyKeys, target \in PropertyTargets \cup SetForms1 \cup SetForms2}

\* (begin (set-property "k" 2 p) (get-property "k" p)), and forms that fail:
\* a key that is no string, a wrong number of children
PropertyForms ==
    SetForms1 \cup SetForms2 \cup GetForms
    \cup {Form("begin", <<SetProperty(Str("k"), Leaf(Num(2)), Leaf(Sym("p"))),
                          GetProperty(Str("k"), Leaf(Sym("p")))>>),
          SetProperty(Sym("k"), Leaf(Num(2)), Leaf(Num(1))),
          GetProperty(Num(1), Leaf(Num(1))),
          Form("set-property", <<Leaf(Str("k")), Leaf(Num(1))>>),
          Form("get-property", <<Leaf(Str("k"))>>)}

\* (list x y)
PointForm(x, y) == Form("list", <<Leaf(Num(x)), Leaf(Num(y))>>)

\* data of a discrete plot: lists of up to two points, a list with a number
\* in place of a point, and a number
PlotData ==
    {Form("list", pts) :
        pts \in SeqsUpTo({PointForm(1, 2), PointForm(2, 1), PointForm(-1, -2)}, 2)}
    \cup {Form("list", <<Leaf(Num(1))>>), Leaf(Num(1))}

\* options: (list), (list (list "title" "t")), a list with a string in place
\* of an option, and a number
PlotOptions ==
    {Form("list", <<>>),
     Form("list", <<Form("list", <<Leaf(Str("title")), Leaf(Str("t"))>>)>>),
     Form("list", <<Leaf(Str("title"))>>), Leaf(Num(1))}

DiscretePlotForms ==
    {Form("discrete-plot", <<data, options>>) : data \in PlotData, options \in PlotOptions}
    \cup {Form("discrete-plot", <<Form("list", <<>>)>>)}

ContinuousPlotForms ==
    {Form("continuous-plot", <<Leaf(Sym(func)), bounds>> \o options) :
        func \in {"f", "+", "x"},
        bounds \in {PointForm(1, 2), Leaf(Num(1))},
        options \in {<<>>, <<Form("list", <<>>)>>, <<Leaf(Num(1))>>}}
    \cup {Form("continuous-plot", <<Leaf(Sym("f"))>>)}

PlotForms == DiscretePlotForms \cup ContinuousPlotForms

Programs ==
    Leaves \cup DefineForms \cup BeginForms \cup {ScopingExample} \cup CallForms \cup MapForms
    \cup LambdaForms \cup ApplyForms \cup PropertyForms \cup PlotForms

\* the steps of the longest evaluation of a program: the signal may arrive before any of them
MaxClock == 4 + 3 * MaxList

EntryStates ==
    {EvalState(env, 1, -1) : env \in Envs}
    \cup {EvalState(env, 0, k) : env \in Envs, k \in -1..MaxClock}

\* ------------------------------------------------------------------ state

VARIABLES
    \* one-shot evaluation (eval_from_stream): the parsed program, the state the
    \* evaluation starts in, its outcome, and where the run stands
    ast, entry, outcome, phase,
    \* repl: where the reader (main thread) and the evaluator (cThread) stand
    rpc, cpc,
    \* std::cin: whether eofbit is set, and the number of getline calls so far
    eof, nread,
    \* the two TSmessage queues, and the line the evaluator popped
    iqueue, oqueue, line,
    \* the environment of the Interpreter the evaluator thread was given
    interp,
    \* history: the requests the reader pushed and the pairs it popped, in order
    pushed, popped,
    \* a token of the lexer and the Atom built from it
    token, atom,
    \* the text operator<< wrote for the result of the evaluation
    printed

evalVars == <<ast, entry, outcome, phase, token, atom, printed>>

replVars == <<rpc, cpc, eof, nread, iqueue, oqueue, line, interp, pushed, popped>>

vars == <<ast, entry, outcome, phase, rpc, cpc, eof, nread, iqueue, oqueue, line,
          interp, pushed, popped, token, atom, printed>>

Idle == Ret(NoneExp, EvalState(DefaultEnv, 0, -1))

NoRequest == [text |-> "", id |-> 0]

\* ------------------------------------------------------------------ lexer tokens

\* bytes of tokens: a digit, a letter, a sign, the point, the exponent mark, the quote
TokenChars == {"1", "a", "-", ".", "e", Q}

\* the tokens of 1..MaxToken bytes (the lexer yields no empty token)
Tokens == SeqsUpTo(TokenChars, MaxToken) \ {<<>>}

AtomInit ==
    /\ token \in Tokens
    /\ atom = NoneAtom
    /\ phase = "token"
    /\ ast = NoneExp /\ entry = EvalState(DefaultEnv, 0, -1) /\ outcome = Idle
    /\ printed = <<>>
    /\ rpc = "off" /\ cpc = "off" /\ eof = FALSE /\ nread = 0
    /\ iqueue = <<>> /\ oqueue = <<>> /\ line = NoRequest
    /\ interp = DefaultEnv /\ pushed = <<>> /\ popped = <<>>

\* the parser builds the Atom of the token
Classify ==
    /\ phase = "token"
    /\ atom' = AtomFromToken(token)
    /\ phase' = "atom"
    /\ UNCHANGED <<ast, entry, outcome, token, printed>>
    /\ UNCHANGED replVars

AtomSpec == AtomInit /\ [][Classify]_vars

\* ------------------------------------------------------------------ one-shot evaluation

EvalInit ==
    /\ ast \in Programs
    /\ entry \in EntryStates
    /\ outcome = Idle
    /\ phase = "parsed"
    /\ rpc = "off" /\ cpc = "off" /\ eof = FALSE /\ nread = 0
    /\ iqueue = <<>> /\ oqueue = <<>> /\ line = NoRequest
    /\ interp = DefaultEnv /\ pushed = <<>> /\ popped = <<>>
    /\ token = <<>> /\ atom = NoneAtom /\ printed = <<>>

\* Interpreter::evaluate on the parsed program
Evaluate ==
    /\ phase = "parsed"
    /\ outcome' = eval(ast, entry)
    /\ phase' = "evaluated"
    /\ UNCHANGED <<ast, entry, token, atom, printed>>
    /\ UNCHANGED replVars

\* eval_from_stream: std::cout << exp, when evaluate() returned
WriteResult ==
    /\ phase = "evaluated"
    /\ outcome.kind = "value"
    /\ printed' = Written(outcome.val)
    /\ phase' = "printed"
    /\ UNCHANGED <<ast, entry, outcome, token, atom>>
    /\ UNCHANGED replVars

EvalNext == Evaluate \/ WriteResult

EvalSpec == EvalInit /\ [][EvalNext]_vars

\* ------------------------------------------------------------------ REPL

\* the lines the user may type
Lines == {"(define a 1)", "(+ a 1)", "(begin (define b 2) (c))", "(+ a b)", "("}

\* Interpreter::parseStream: whether the line parses, and the tree it parses to
parseStream(text) ==
    CASE text = "(define a 1)" ->
            [ok |-> TRUE, ast |-> Define("a", Leaf(Num(1)))]
      [] text = "(+ a 1)" ->
            [ok |-> TRUE, ast |-> Form("+", <<Leaf(Sym("a")), Leaf(Num(1))>>)]
      [] text = "(+ a b)" ->
            [ok |-> TRUE, ast |-> Form("+", <<Leaf(Sym("a")), Leaf(Sym("b"))>>)]
      [] text = "(begin (define b 2) (c))" ->
            [ok |-> TRUE, ast |-> Form("begin", <<Define("b", Leaf(Num(2))), Form("c", <<>>)>>)]
      [] OTHER -> [ok |-> FALSE, ast |-> NoneExp]

\* TSmessage::push, and the element TSmessage::wait_and_pop removes
push(queue, x) == Append(queue, x)

front(queue) == Head(queue)

pop(queue) == Tail(queue)

\* output_type output: the pair made of result and error for a request that
\* parsed to parsed and evaluated to r, and the environment the request leaves
Output(parsed, r, env) ==
    IF ~parsed.ok
    THEN [first |-> NoneExp, second |-> "Invalid Expression. Could not parse.", env |-> env]
    ELSE IF r.kind = "value"
    THEN [first |-> r.val, second |-> "", env |-> r.st.env]
    ELSE [first |-> NoneExp, second |-> r.err, env |-> r.st.env]

\* the body of Consumer::operator() after the sentinel test
Serve(text, env) ==
    Output(parseStream(text), eval(parseStream(text).ast, EvalState(env, 0, -1)), env)

\* the environments the interpreter of the REPL can be in: those the lines
\* lead to from the default one
RECURSIVE EnvClosure(_)
EnvClosure(S) ==
    CHOOSE R \in {IF T = S THEN S ELSE EnvClosure(T) :
                    T \in {S \cup {Serve(t, e).env : t \in Lines, e \in S}}} : TRUE

ReplEnvs == EnvClosure({DefaultEnv})

\* Serve, tabulated over the lines and the environments of the REPL
ServeTable == [t \in Lines, e \in ReplEnvs |-> Serve(t, e)]

Served(text, env) == ServeTable[text, env]

ReplInit ==
    /\ rpc = "loop" /\ cpc = "wait" /\ eof = FALSE /\ nread = 0
    /\ iqueue = <<>> /\ oqueue = <<>> /\ line = NoRequest
    /\ interp = DefaultEnv /\ pushed = <<>> /\ popped = <<>>
    /\ token = <<>> /\ atom = NoneAtom /\ printed = <<>>
    /\ ast = NoneExp /\ entry = EvalState(DefaultEnv, 0, -1)
    /\ outcome = Idle /\ phase = "repl"

\* ReaderRead with no blocking pop after the push: the reader goes on to the
\* next line at once
ReaderRead_NoWait ==
    /\ rpc = "loop" /\ ~eof
    /\ \E text \in Lines \cup {""}, atEnd \in BOOLEAN :
        /\ nread < MaxLines \/ (text = "" /\ atEnd)
        /\ text = "" \/ nread < MaxLines
        /\ nread' = nread + 1
        /\ eof' = atEnd
        /\ IF text = ""
           THEN UNCHANGED <<rpc, iqueue, pushed>>
           ELSE /\ iqueue' = push(iqueue, [text |-> text, id |-> nread + 1])
                /\ pushed' = Append(pushed, [text |-> text, id |-> nread + 1])
                /\ rpc' = "loop"
    /\ UNCHANGED <<cpc, oqueue, line, interp, popped>>
    /\ UNCHANGED evalVars

\* one turn of the reader's loop up to its blocking pop: prompt, readline,
\* the empty-line test, and the push of the Producer
ReaderRead ==
    /\ rpc = "loop" /\ ~eof
    /\ \E text \in Lines \cup {""}, atEnd \in BOOLEAN :
        /\ nread < MaxLines \/ (text = "" /\ atEnd)
        /\ text = "" \/ nread < MaxLines
        /\ nread' = nread + 1
        /\ eof' = atEnd
        /\ IF text = ""
           THEN UNCHANGED <<rpc, iqueue, pushed>>
           ELSE /\ iqueue' = push(iqueue, [text |-> text, id |-> nread + 1])
                /\ pushed' = Append(pushed, [text |-> text, id |-> nread + 1])
                /\ rpc' = "pop"
    /\ UNCHANGED <<cpc, oqueue, line, interp, popped>>
    /\ UNCHANGED evalVars

\* output->wait_and_pop(result), and the print of the result or of the error
ReaderPop ==
    /\ rpc = "pop" /\ Len(oqueue) > 0
    /\ popped' = Append(popped, front(oqueue))
    /\ oqueue' = pop(oqueue)
    /\ rpc' = "loop"
    /\ UNCHANGED <<cpc, eof, nread, iqueue, line, interp, pushed>>
    /\ UNCHANGED evalVars

\* the end of the loop, then cThread.join() and the deletes
ReaderLeave ==
    /\ IF rpc = "loop" /\ eof THEN rpc' = "join"
       ELSE rpc = "join" /\ cpc = "done" /\ rpc' = "returned"
    /\ UNCHANGED <<cpc, eof, nread, iqueue, oqueue, line, interp, pushed, popped>>
    /\ UNCHANGED evalVars

\* iqueue->wait_and_pop(line) and the sentinel test
ConsumerPop ==
    /\ cpc = "wait" /\ Len(iqueue) > 0
    /\ line' = front(iqueue)
    /\ iqueue' = pop(iqueue)
    /\ cpc' = IF front(iqueue).text = "" THEN "done" ELSE "eval"
    /\ UNCHANGED <<rpc, eof, nread, oqueue, interp, pushed, popped>>
    /\ UNCHANGED evalVars

\* ConsumerEval with a request that fails dropped without an answer
ConsumerEval_DropsFailure ==
    /\ cpc = "eval"
    /\ LET served == Served(line.text, interp)
       IN  /\ oqueue' = IF served.second = "" 
                        THEN push(oqueue, [first |-> served.first, second |-> served.second,
                                           id |-> line.id])
                        ELSE oqueue
           /\ interp' = served.env
    /\ cpc' = "wait"
    /\ UNCHANGED <<rpc, eof, nread, iqueue, line, pushed, popped>>
    /\ UNCHANGED evalVars

\* ConsumerEval with the SemanticError caught outside the loop: the pair is
\* pushed and the thread ends
ConsumerEval_EndsOnError ==
    /\ cpc = "eval"
    /\ LET served == Served(line.text, interp)
       IN  /\ oqueue' = push(oqueue, [first |-> served.first, second |-> served.second,
                                      id |-> line.id])
           /\ interp' = served.env
           /\ cpc' = IF served.second = "" THEN "wait" ELSE "done"
    /\ UNCHANGED <<rpc, eof, nread, iqueue, line, pushed, popped>>
    /\ UNCHANGED evalVars

\* parse, evaluate, and the push of the pair
ConsumerEval ==
    /\ cpc = "eval"
    /\ LET served == Served(line.text, interp)
       IN  /\ oqueue' = push(oqueue, [first |-> served.first, second |-> served.second,
                                      id |-> line.id])
           /\ interp' = served.env
    /\ cpc' = "wait"
    /\ UNCHANGED <<rpc, eof, nread, iqueue, line, pushed, popped>>
    /\ UNCHANGED evalVars

Next == ReaderRead \/ ReaderPop \/ ReaderLeave \/ ConsumerPop \/ ConsumerEval

Spec == ReplInit /\ [][Next]_vars

\* the threads are scheduled, and std::cin delivers a line or the end of input
FairSpec ==
    Spec /\ WF_vars(ReaderRead) /\ WF_vars(ReaderPop) /\ WF_vars(ReaderLeave)
         /\ WF_vars(ConsumerPop) /\ WF_vars(ConsumerEval)

\* ------------------------------------------------------------------ claims: REPL

\* C1: an empty input line (the one read at the end of input included) reaches
\* the evaluator as the sentinel that ends its thread, so that the reader's
\* join completes and repl() returns: when the reader joins, the evaluator has
\* ended or the sentinel is on its way to it, and repl() is never stuck before
\* it has returned.
C1_EmptyLineEndsRepl ==
    /\ rpc = "join" =>
          (cpc = "done" \/ \E i \in 1..Len(iqueue) : iqueue[i].text = "")
    /\ rpc = "returned" \/ ENABLED Next

\* the pairs the evaluator has pushed so far, in order
Answers == popped \o oqueue

\* C2 (safety part): the pairs pushed answer the lines pushed, one pair per
\* line and in the order of the lines, and the reader reads the next line only
\* when every line pushed has been answered
C2_AnswersInOrder ==
    /\ Len(Answers) <= Len(pushed)
    /\ \A k \in 1..Len(Answers) : Answers[k].id = pushed[k].id
    /\ \A k \in 1..Len(pushed) : pushed[k].text # ""
    /\ rpc = "loop" => Len(popped) = Len(pushed)

Fails(text, env) ==
    \/ ~parseStream(text).ok
    \/ eval(parseStream(text).ast, EvalState(env, 0, -1)).kind = "throw"

\* the environment a request leaves: the one it found when it does not parse,
\* else the one its evaluation left, which keeps what was bound before a throw
EnvAfter(text, env) ==
    IF parseStream(text).ok
    THEN eval(parseStream(text).ast, EvalState(env, 0, -1)).st.env
    ELSE env

\* C3: when a request fails to parse or its evaluation raises a semantic error,
\* the evaluator answers with one pair whose string field is the non-empty
\* message, does not put the request back, stays alive waiting for the next
\* request, and keeps the interpreter environment the request left
C3_ErrorIsAnswered ==
    [][(cpc = "eval" /\ cpc' # "eval" /\ Fails(line.text, interp)) =>
          /\ Len(oqueue') = Len(oqueue) + 1
          /\ oqueue'[Len(oqueue')].second # ""
          /\ oqueue'[Len(oqueue')].id = line.id
          /\ iqueue' = iqueue
          /\ cpc' = "wait"
          /\ interp' = EnvAfter(line.text, interp)]_vars

\* a parse failure and a semantic error were answered, and the request after
\* them was served in the environment the earlier requests built
C3_Witness ==
    /\ Len(popped) = 3
    /\ pushed[1].text = "(begin (define b 2) (c))" /\ popped[1].second # ""
    /\ pushed[2].text = "(" /\ popped[2].second = "Invalid Expression. Could not parse."
    /\ pushed[3].text = "(+ a b)" /\ popped[3].second # ""
    /\ Sym("b") \in {Sym(n[1]) : n \in DOMAIN interp}

\* ------------------------------------------------------------------ claims: evaluator

\* the evaluation ran with the flag clear and no signal
NoInterrupt == entry.flag = 0 /\ entry.intAt = -1

\* the same evaluation with no signal delivered
Reference == eval(ast, [entry EXCEPT !.intAt = -1])

\* whether the flag is set when the step with clock c is taken
FlagSetAt(c) == entry.flag > 0 \/ (entry.intAt >= 0 /\ entry.intAt <= c)

\* the steps of a trace at depth 1 of kind ev: the evaluations of the children
\* of the top-level form, or its calls of apply
TopSteps(tr, evs) == SelectSeq(tr, LAMBDA s : s.depth = 1 /\ s.ev \in evs)

TopExps(tr, evs) == [i \in 1..Len(TopSteps(tr, evs)) |-> TopSteps(tr, evs)[i].exp]

\* C4: the flag is polled at the top of every evaluation step: an eval entered
\* with the flag set raises the interrupt error before it evaluates a child,
\* looks a symbol up, calls apply or changes the environment. An eval entered
\* first with the flag set leaves one step, the interrupted entry, and the
\* environment as it was; at any depth the interrupted entry is the last step
\* taken, and no eval runs with the flag set.
C4_FlagPolledAtEveryEval ==
    phase = "evaluated" =>
        /\ FlagSetAt(0) =>
              /\ outcome.kind = "throw" /\ outcome.err = InterruptMsg
              /\ outcome.st.env = entry.env
              /\ Len(outcome.st.trace) = 1
              /\ outcome.st.trace[1].ev = "interrupted"
        /\ \A i \in 1..Len(outcome.st.trace) :
              LET s == outcome.st.trace[i]
              IN  /\ s.ev = "eval" => ~FlagSetAt(s.clock)
                  /\ (s.ev \in {"eval", "interrupted"} /\ FlagSetAt(s.clock)) =>
                        /\ s.ev = "interrupted"
                        /\ i = Len(outcome.st.trace)
                        /\ outcome.kind = "throw" /\ outcome.err = InterruptMsg

\* the signal arrived inside (define x 1) of the scoping example: the eval of
\* the literal was interrupted and x was not bound
C4_Witness ==
    /\ phase = "evaluated" /\ ast = ScopingExample /\ entry.env = DefaultEnv
    /\ entry.intAt = 2
    /\ outcome.err = InterruptMsg
    /\ ~is_exp(outcome.st.env, Sym("x"))

\* a map form with its two children
IsMapForm(e) == asSymbol(e.head) = <<"map">> /\ Len(e.tail) = 2

\* the clocks of the calls of apply the map form makes when no signal arrives
MapCalls ==
    {Reference.st.trace[i].clock :
        i \in {j \in 1..Len(Reference.st.trace) :
                  Reference.st.trace[j].ev = "apply" /\ Reference.st.trace[j].depth = 1}}

\* the signal arrives while the map form is iterating: after its first call of
\* apply has begun and before its last call begins
SetWhileIterating ==
    /\ phase = "evaluated" /\ IsMapForm(ast) /\ entry.flag = 0
    /\ MapCalls # {}
    /\ \E c \in MapCalls : c < entry.intAt
    /\ \E c \in MapCalls : entry.intAt <= c

\* C5 as claimed: whatever the operator, built-in procedure or lambda, a flag that
\* becomes set while the map form is iterating makes the next evaluation step
\* fail with the interrupt error, which unwinds the map to the top-level call
C5_MapInterruptedAnyOperator ==
    SetWhileIterating => (outcome.kind = "throw" /\ outcome.err = InterruptMsg)

\* C5 as amended: with an operator bound to a lambda, a flag that becomes set
\* while the map form is iterating makes the next evaluation step, an eval
\* inside the application of the lambda, fail with the interrupt error, which
\* unwinds the map to the top-level call; with a built-in procedure the
\* iteration enters no eval, the flag is not polled, and the map form returns
\* the list it returns when no signal arrives
C5_MapInterruptedInLambda ==
    SetWhileIterating =>
        /\ isLambda(get_exp(entry.env, ast.tail[1].head)) =>
              /\ outcome.kind = "throw" /\ outcome.err = InterruptMsg
              /\ outcome.st.trace[Len(outcome.st.trace)].ev = "interrupted"
              /\ \A i \in 1..(Len(outcome.st.trace) - 1) :
                    outcome.st.trace[i].clock >= entry.intAt =>
                        outcome.st.trace[i].ev = "apply"
              /\ outcome.st.env = entry.env
        /\ is_proc(entry.env, ast.tail[1].head) =>
              /\ outcome.kind = "value"
              /\ outcome.val = Reference.val
              /\ Len(outcome.val.tail) = Len(ast.tail[2].tail)

\* the signal arrived after the lambda was applied to the first element
C5_Witness ==
    /\ SetWhileIterating
    /\ isLambda(get_exp(entry.env, ast.tail[1].head))
    /\ Len(TopSteps(outcome.st.trace, {"apply"})) >= 2
    /\ outcome.err = InterruptMsg

\* the environment in which the parameters (heads of params) are bound to the
\* values, a later parameter of the same name winning, and every other name is
\* bound as in env
Shadowed(env, params, values) ==
    [n \in DOMAIN env \cup {asSymbol(params[i].head) : i \in 1..Len(params)} |->
        IF \E i \in 1..Len(params) : asSymbol(params[i].head) = n
        THEN ExpEntry(values[CHOOSE i \in 1..Len(params) :
                                /\ asSymbol(params[i].head) = n
                                /\ \A j \in 1..Len(params) :
                                      asSymbol(params[j].head) = n => j <= i])
        ELSE env[n]]

\* a top-level call of a symbol bound to a lambda, the arguments atoms
IsLambdaCall ==
    /\ ast \in CallForms /\ Len(ast.tail) > 0
    /\ isLambda(get_exp(entry.env, ast.head))

\* the values of the arguments of the call: numbers, or symbols that are bound
ArgValues == [i \in 1..Len(ast.tail) |-> handle_lookup(ast.tail[i].head, entry).val]

\* C6: applying a lambda evaluates its body in a copy of the caller's
\* environment in which each parameter is shadowed by its argument, and
\* whatever the body does (a define, a parameter named like a binding of the
\* caller), every binding of the caller's environment is after the application
\* what it was before; the scoping example evaluates to 2 and leaves x = 1
C6_LambdaLeavesCallerEnv ==
    /\ (phase = "evaluated" /\ NoInterrupt /\ IsLambdaCall) =>
          LET lambda == get_exp(entry.env, ast.head)
              params == lambda.tail[1].tail
              body == eval(lambda.tail[2],
                           EvalState(Shadowed(entry.env, params, ArgValues), 0, -1))
          IN  /\ outcome.st.env = entry.env
              /\ Len(params) = Len(ast.tail) =>
                    (outcome.kind = body.kind /\ outcome.val = body.val)
              /\ Len(params) # Len(ast.tail) => outcome.kind = "throw"
    /\ (phase = "evaluated" /\ NoInterrupt /\ ast = ScopingExample) =>
          /\ outcome.kind = "value" /\ outcome.val = Single(Num(2))
          /\ get_exp(outcome.st.env, Sym("x")) = Single(Num(1))

\* h, whose parameters are named like the bindings pi and x of the caller and
\* whose body defines x, was applied to 1 and 2
C6_Witness ==
    /\ phase = "evaluated" /\ NoInterrupt /\ entry.env = StartupEnv
    /\ ast = Form("h", <<Leaf(Num(2)), Leaf(Num(1))>>)
    /\ outcome.kind = "value" /\ outcome.val = Single(Num(4))
    /\ get_exp(outcome.st.env, Sym("x")) = Single(Num(1))
    /\ get_exp(outcome.st.env, Sym("pi")) = Single(NumberAtom(PiValue))

\* the names the claim reserves: the special forms, the built-in procedures
\* and the constants
ReservedNames ==
    {<<n>> : n \in SpecialForms} \cup {<<"pi">>, <<"e">>, <<"I">>}
    \cup {n \in DOMAIN DefaultEnv : DefaultEnv[n].type = "proc"}

\* C7: a define form whose first child names a special form, a built-in
\* procedure or one of pi, e, I fails with a semantic error without evaluating
\* its second child and without changing the environment
C7_ReservedNamesRefused ==
    (/\ phase = "evaluated" /\ NoInterrupt
     /\ asSymbol(ast.head) = <<"define">> /\ Len(ast.tail) = 2
     /\ isSymbol(ast.tail[1].head)
     /\ asSymbol(ast.tail[1].head) \in ReservedNames) =>
        /\ outcome.kind = "throw"
        /\ TopSteps(outcome.st.trace, {"eval", "interrupted"}) = <<>>
        /\ outcome.st.env = entry.env

\* a begin form with children
IsBeginForm(e) == asSymbol(e.head) = <<"begin">> /\ Len(e.tail) > 0

\* the number of children of the top-level form whose evaluation was entered
Entered == Len(TopSteps(outcome.st.trace, {"eval", "interrupted"}))

\* the state the first n children of the top-level begin form leave
AfterChildren(n) ==
    IF n = 0 THEN [entry EXCEPT !.clock = 1, !.depth = 1]
    ELSE eval(Form("begin", SubSeq(ast.tail, 1, n)), entry).st

\* whether child i of the top-level form is (define name value) with name a symbol
IsDefineChild(i) ==
    /\ asSymbol(ast.tail[i].head) = <<"define">> /\ Len(ast.tail[i].tail) = 2
    /\ isSymbol(ast.tail[i].tail[1].head)

\* C8: when a later child of a begin form fails with a semantic error, the
\* error unwinds to the top-level call, no child after the failing one is
\* evaluated, and the bindings the earlier children made are kept: the
\* environment is the one the earlier children left, and every symbol an
\* earlier define form bound is bound
C8_FailedBeginKeepsBindings ==
    (phase = "evaluated" /\ IsBeginForm(ast) /\ ~FlagSetAt(0) /\ outcome.kind = "throw") =>
        /\ Entered >= 1
        /\ TopExps(outcome.st.trace, {"eval", "interrupted"}) = SubSeq(ast.tail, 1, Entered)
        /\ outcome.st.env = AfterChildren(Entered - 1).env
        /\ \A i \in 1..(Entered - 1) :
              IsDefineChild(i) => is_exp(outcome.st.env, ast.tail[i].tail[1].head)

\* (begin (define x 2) (define y x) z) failed at z with x and y bound
C8_Witness ==
    /\ phase = "evaluated" /\ NoInterrupt /\ entry.env = DefaultEnv
    /\ ast = Form("begin", <<Define("x", Leaf(Num(2))), Define("y", Leaf(Sym("x"))),
                             Leaf(Sym("z"))>>)
    /\ outcome.kind = "throw"
    /\ get_exp(outcome.st.env, Sym("x")) = Single(Num(2))
    /\ get_exp(outcome.st.env, Sym("y")) = Single(Num(2))

\* a begin form that evaluates every child exactly once, first to last, each in
\* the environment the children before it left, and returns the last result
BeginInOrder ==
    (IsBeginForm(ast) /\ outcome.kind = "value") =>
        /\ TopExps(outcome.st.trace, {"eval", "interrupted"}) = ast.tail
        /\ LET last == eval(ast.tail[Len(ast.tail)], AfterChildren(Len(ast.tail) - 1))
           IN  /\ outcome.val = last.val
               /\ outcome.st.env = last.st.env

\* C9 as claimed: a begin form evaluates each child exactly once in order, in
\* the same environment, and returns the result of the last child; a begin
\* form with no children returns a None Expression
C9_BeginReturnsLastOrNone ==
    (phase = "evaluated" /\ NoInterrupt) =>
        /\ BeginInOrder
        /\ (asSymbol(ast.head) = <<"begin">> /\ isSymbol(ast.head) /\ Len(ast.tail) = 0) =>
              (outcome.kind = "value" /\ outcome.val = NoneExp)

\* C9 as amended: a begin form with children evaluates each child exactly once
\* in order, in the same environment, and returns the result of the last
\* child; a begin form with no children is handled as a lookup of the symbol
\* begin: it fails with the unknown-symbol error, unless begin is bound (as a
\* lambda parameter), and then it returns the bound expression
C9_BeginReturnsLast ==
    (phase = "evaluated" /\ NoInterrupt) =>
        /\ BeginInOrder
        /\ (asSymbol(ast.head) = <<"begin">> /\ isSymbol(ast.head) /\ Len(ast.tail) = 0) =>
              /\ ~is_exp(entry.env, ast.head)
              /\ outcome.kind = "throw"
              /\ outcome.err = "Error during handle lookup: unknown symbol"
        /\ (ast = Form("k", <<Leaf(Num(2))>>) /\ entry.env = StartupEnv) =>
              (outcome.kind = "value" /\ outcome.val = Single(Num(2)))

\* (begin (define y x) (define x 2) y) returned the value y was given first
C9_Witness ==
    /\ phase = "evaluated" /\ NoInterrupt /\ entry.env = StartupEnv
    /\ ast = Form("begin", <<Define("y", Leaf(Sym("x"))), Define("x", Leaf(Num(2))),
                             Leaf(Sym("x"))>>)
    /\ outcome.kind = "value" /\ outcome.val = Single(Num(2))
    /\ get_exp(outcome.st.env, Sym("y")) = Single(Num(1))

\* C10: a node with an empty tail whose head is a number, a complex or a
\* string, whatever its text, evaluates to that atom as a Singleton and leaves
\* the environment unchanged; one whose head is a symbol (other than list,
\* which the list rule takes first) evaluates to the expression bound to it or
\* fails with the unknown-symbol error
C10_TerminalEvaluatesToItself ==
    (phase = "evaluated" /\ NoInterrupt /\ Len(ast.tail) = 0) =>
        /\ (isNumber(ast.head) \/ isComplex(ast.head) \/ isString(ast.head)) =>
              /\ outcome.kind = "value" /\ outcome.val = Single(ast.head)
              /\ outcome.st.env = entry.env
        /\ (isSymbol(ast.head) /\ asSymbol(ast.head) # <<"list">>) =>
              IF is_exp(entry.env, ast.head)
              THEN outcome.kind = "value" /\ outcome.val = get_exp(entry.env, ast.head)
              ELSE /\ outcome.kind = "throw"
                   /\ outcome.err = "Error during handle lookup: unknown symbol"

\* ------------------------------------------------------------------ claims: special forms

IsLambdaForm(e) == asSymbol(e.head) = <<"lambda">> /\ Len(e.tail) > 0

\* C11: a lambda form takes exactly two children: with two it returns a Lambda
\* of exactly two children, the parameter template built from the first
\* child's head and tail and the second child as the body, without evaluating
\* the body or changing the environment; with any other number of children
\* it does not yield a Lambda.
C11_LambdaTakesTwoChildren ==
    (phase = "evaluated" /\ IsLambdaForm(ast) /\ NoInterrupt) =>
        /\ Len(ast.tail) = 2 =>
              /\ outcome.kind = "value" /\ isLambda(outcome.val)
              /\ Len(outcome.val.tail) = 2
              /\ outcome.val.tail[1]
                    = ListExp(<<Single(ast.tail[1].head)>> \o ast.tail[1].tail)
              /\ outcome.val.tail[2] = ast.tail[2]
              /\ Len(outcome.st.trace) = 1
              /\ outcome.st.env = entry.env
        /\ Len(ast.tail) # 2 => ~(outcome.kind = "value" /\ isLambda(outcome.val))

IsApplyForm(e) == asSymbol(e.head) = <<"apply">> /\ Len(e.tail) = 2

\* the state the form is evaluated in, with no signal to come
Quiet == EvalState(entry.env, 0, -1)

\* the first child is an operator: the name of a built-in procedure or a
\* symbol bound to a lambda
IsOperator(child) ==
    /\ Len(child.tail) = 0
    /\ is_proc(entry.env, child.head) \/ isLambda(get_exp(entry.env, child.head))

\* what an outcome is to the caller: a value or an error, and the environment left
Result(r) == [kind |-> r.kind, val |-> r.val, err |-> r.err, env |-> r.st.env]

\* C12: an apply form with two children whose second child evaluates to a
\* list gives the result of calling the operator directly with the members of
\* the list as arguments (the result of apply on them, which for a list form
\* with members is the result of the call form (op member ...)); when the second child evaluates to a non-list it
\* fails with "second argument to apply not a list" and the operator is never
\* called; when the first child is neither the name of a built-in procedure
\* nor a symbol bound to a lambda, it fails.
C12_ApplyCallsOperatorOnList ==
    (phase = "evaluated" /\ IsApplyForm(ast) /\ NoInterrupt) =>
        LET second == eval(ast.tail[2], Quiet)
        IN  /\ (IsOperator(ast.tail[1]) /\ second.kind = "value" /\ isList(second.val)) =>
                  /\ Result(outcome)
                        = Result(apply(ast.tail[1].head, second.val.tail, Quiet))
                  /\ (asSymbol(ast.tail[2].head) = <<"list">> /\ Len(ast.tail[2].tail) > 0) =>
                        Result(outcome)
                          = Result(eval(Node(ast.tail[1].head, ast.tail[2].tail), Quiet))
            /\ (IsOperator(ast.tail[1]) /\ second.kind = "value" /\ ~isList(second.val)) =>
                  /\ outcome.kind = "throw"
                  /\ outcome.err = "Error: second argument to apply not a list"
                  /\ \A i \in 1..Len(outcome.st.trace) : outcome.st.trace[i].ev # "apply"
            /\ ~IsOperator(ast.tail[1]) => outcome.kind = "throw"

\* the calls of apply a map form itself makes, in order
CallsOfMap == TopSteps(outcome.st.trace, {"apply"})

\* the second child of the map form, evaluated
ListEvaled == eval(ast.tail[2], Quiet)

\* C13: a map form over a list of n elements calls the operator exactly n
\* times, the i-th call with the i-th element alone as its argument vector,
\* in the order of the list, and returns a List of exactly n results, the i-th
\* the result of the i-th call; a list of 0 elements gives the empty List.
C13_MapCallsOncePerElement ==
    (phase = "evaluated" /\ IsMapForm(ast) /\ outcome.kind = "value") =>
        LET items == ListEvaled.val.tail
            op == ast.tail[1].head
        IN  /\ Len(CallsOfMap) = Len(items)
            /\ \A i \in 1..Len(items) : CallsOfMap[i].exp = Node(op, <<items[i]>>)
            /\ \A i \in 1..(Len(items) - 1) : CallsOfMap[i].clock < CallsOfMap[i + 1].clock
            /\ isList(outcome.val) /\ Len(outcome.val.tail) = Len(items)
            /\ \A i \in 1..Len(items) :
                  outcome.val.tail[i]
                    = apply(op, <<items[i]>>, [Quiet EXCEPT !.env = ListEvaled.st.env]).val
            /\ Len(items) = 0 => outcome.val = ListExp(<<>>)

\* (map - (list 1 2 1)) made three calls and returned (-1 -2 -1)
C13_Witness ==
    /\ phase = "evaluated" /\ IsMapForm(ast) /\ outcome.kind = "value"
    /\ ast.tail[1].head = Sym("-")
    /\ Len(CallsOfMap) = 3
    /\ outcome.val = ListExp(<<Single(Num(-1)), Single(Num(-2)), Single(Num(-1))>>)

IsSetForm(e) ==
    asSymbol(e.head) = <<"set-property">> /\ Len(e.tail) = 3 /\ isString(e.tail[1].head)

IsGetForm(e) ==
    asSymbol(e.head) = <<"get-property">> /\ Len(e.tail) = 2 /\ isString(e.tail[1].head)

\* the keys a target was given by the set-property forms it is made of, and by
\* the startup program when it is the symbol p
RECURSIVE KeysSet(_)
KeysSet(e) ==
    IF IsSetForm(e) THEN {asString(e.tail[1].head)} \cup KeysSet(e.tail[3])
    ELSE {q.k : q \in get_exp(entry.env, e.head).props}

\* C14: get-property k of (set-property k v t) returns the value of v, also
\* when t already had a property under k; properties under other keys are
\* kept; get-property of a key that was never set returns a None Expression;
\* set-property works on a copy, so that an expression bound in the
\* environment and used as target keeps its old properties.
C14_GetReturnsWhatSetStored ==
    (phase = "evaluated" /\ outcome.kind = "value") =>
        /\ (IsGetForm(ast) /\ IsSetForm(ast.tail[2])) =>
              LET key == asString(ast.tail[1].head)
                  set == ast.tail[2]
                  target == eval(set.tail[3], Quiet)
                  value == eval(set.tail[2], [Quiet EXCEPT !.env = target.st.env])
              IN  /\ key = asString(set.tail[1].head) => outcome.val = value.val
                  /\ key # asString(set.tail[1].head) =>
                        outcome.val = eval(GetProperty(ast.tail[1].head, set.tail[3]), Quiet).val
        /\ (IsGetForm(ast) /\ asString(ast.tail[1].head) \notin KeysSet(ast.tail[2])) =>
              outcome.val = NoneExp
        /\ IsSetForm(ast) =>
              /\ getProperty(outcome.val, asString(ast.tail[1].head))
                    = eval(ast.tail[2], Quiet).val
              /\ outcome.st.env = entry.env
        /\ (asSymbol(ast.head) = <<"begin">> /\ Len(ast.tail) = 2 /\ IsSetForm(ast.tail[1])
              /\ IsGetForm(ast.tail[2])) =>
              /\ outcome.val = getProperty(get_exp(entry.env, Sym("p")), asString(Str("k")))
              /\ outcome.st.env = entry.env

\* (get-property "k" (set-property "k" 3 (set-property "k" 2 p))) returned 3:
\* the property p had and the one set first were overwritten, and p keeps its own
C14_Witness ==
    /\ phase = "evaluated" /\ outcome.kind = "value"
    /\ ast = GetProperty(Str("k"),
                SetProperty(Str("k"), Leaf(Num(3)),
                    SetProperty(Str("k"), Leaf(Num(2)), Leaf(Sym("p")))))
    /\ outcome.val = Single(Num(3))
    /\ getProperty(get_exp(outcome.st.env, Sym("p")), asString(Str("k"))) = Single(Num(1))

IsDiscretePlotForm(e) == asSymbol(e.head) = <<"discrete-plot">> /\ Len(e.tail) > 0

IsContinuousPlotForm(e) == asSymbol(e.head) = <<"continuous-plot">> /\ Len(e.tail) > 0

\* the children of e that are lines, and those that are strings
LineChildren(e) == {i \in 1..Len(e.tail) : checkProperty(e.tail[i], "object-name", "line")}

TextChildren(e) == {i \in 1..Len(e.tail) : isString(e.tail[i].head)}

\* a Plot of the given type with the lines of the bounding box and the labels
\* of the extrema among its children, and the numpoints and numoptions properties
IsPlotOf(e, type) ==
    /\ e.type = "Plot"
    /\ getProperty(e, <<"type">>) = Single(Sym(type))
    /\ Cardinality(LineChildren(e)) >= 4
    /\ Cardinality(TextChildren(e)) >= 4
    /\ getProperty(e, <<"numpoints">>) # NoneExp
    /\ getProperty(e, <<"numoptions">>) # NoneExp

\* C15: every successful evaluation of a discrete-plot or continuous-plot form
\* returns a Plot that carries the type property DP (discrete) or CP
\* (continuous), has the bounding-box lines and the extremum labels among its
\* children, and has the numpoints and numoptions properties.
C15_PlotFormsReturnPlots ==
    (phase = "evaluated" /\ outcome.kind = "value") =>
        /\ IsDiscretePlotForm(ast) => IsPlotOf(outcome.val, "DP")
        /\ IsContinuousPlotForm(ast) => IsPlotOf(outcome.val, "CP")

\* ------------------------------------------------------------------ claims: atoms and text

\* the entire token parses as a double
EntireDouble(t) == StreamDouble(t).ok /\ StreamDouble(t).consumed = Len(t)

\* C17: the Atom built from a token is a Number when the entire token parses
\* as a double; otherwise a String when its first byte is a double quote;
\* otherwise a Symbol when its first byte is not a digit; otherwise no atom
\* (kind None).
C17_TokenClassification ==
    phase = "atom" =>
        IF EntireDouble(token) THEN isNumber(atom)
        ELSE IF FirstByte(token) = Q THEN isString(atom)
        ELSE IF ~IsDigit(FirstByte(token)) THEN isSymbol(atom)
        ELSE atom = NoneAtom

\* a tree the parser can have built: every node headed by a symbol, a string
\* or a number
RECURSIVE IsSource(_)
IsSource(e) ==
    /\ e.type = "Singleton"
    /\ e.head.kind \in {"SymbolKind", "NumberKind"}
    /\ \A i \in 1..Len(e.tail) : IsSource(e.tail[i])

\* C16: when a syntactically valid source evaluates to a value that is not a
\* plot, the text printed for the value is accepted by the parser.
C16_PrintedTextReparses ==
    (phase = "printed" /\ IsSource(ast) /\ outcome.val.type # "Plot")
        => Accepted(printed)

\* ------------------------------------------------------------------ claims: calls

\* the operator and the operands of a call: of a call form (op a ...), or of
\* an apply form (apply op (list a ...))
CallOp == IF IsApplyForm(ast) THEN ast.tail[1].head ELSE ast.head

Operands == IF IsApplyForm(ast) THEN ast.tail[2].tail ELSE ast.tail

\* an evaluation, with no signal, of a call whose operands are atoms that
\* evaluate: numbers, or symbols that are bound
IsCallOfAtoms ==
    /\ phase = "evaluated" /\ NoInterrupt
    /\ \/ ast \in CallForms /\ Len(ast.tail) > 0
       \/ /\ ast \in ApplyForms /\ IsApplyForm(ast)
          /\ Len(ast.tail[1].tail) = 0
          /\ asSymbol(ast.tail[2].head) = <<"list">>
    /\ \A i \in 1..Len(Operands) :
          /\ Len(Operands[i].tail) = 0
          /\ handle_lookup(Operands[i].head, Quiet).kind = "value"

OperandValues == [i \in 1..Len(Operands) |-> handle_lookup(Operands[i].head, Quiet).val]

ArityError == "Error: during apply: Error in call to procedure: invalid number of arguments."

\* C18: a call of an operator bound to a lambda with a number of arguments
\* other than the number of parameters fails with the arity error, and the
\* last step taken is the apply: the body was not evaluated. With the right
\* number the call gives what the body gives where the i-th parameter is
\* bound to the i-th argument. A call of an operator that is neither bound to
\* a lambda nor a symbol naming a built-in procedure fails.
C18_LambdaArityAndShadowing ==
    IsCallOfAtoms =>
        LET lambda == get_exp(entry.env, CallOp)
            trace == outcome.st.trace
        IN  IF isLambda(lambda)
            THEN LET params == lambda.tail[1].tail
                     body == eval(lambda.tail[2],
                                  EvalState(Shadowed(entry.env, params, OperandValues), 0, -1))
                 IN  IF Len(Operands) # Len(params)
                     THEN /\ outcome.kind = "throw" /\ outcome.err = ArityError
                          /\ trace[Len(trace)].ev = "apply"
                          /\ trace[Len(trace)].exp = Node(CallOp, OperandValues)
                     ELSE /\ outcome.kind = body.kind /\ outcome.val = body.val
                          /\ outcome.err = body.err
                          /\ \E i \in 1..Len(trace) - 1 :
                                /\ trace[i].ev = "apply"
                                /\ trace[i + 1].ev = "eval"
                                /\ trace[i + 1].exp = lambda.tail[2]
            ELSE ~(isSymbol(CallOp) /\ is_proc(entry.env, CallOp)) => outcome.kind = "throw"

\* h, of the two parameters pi and x, was called with the one argument 1:
\* the arity error, and the body never entered
C18_Witness ==
    /\ phase = "evaluated" /\ NoInterrupt /\ entry.env = StartupEnv
    /\ ast = Form("h", <<Leaf(Num(1))>>)
    /\ IsCallOfAtoms
    /\ outcome.kind = "throw" /\ outcome.err = ArityError
    /\ outcome.st.trace[Len(outcome.st.trace)].ev = "apply"

\* ------------------------------------------------------------------ claims: REPL threads

\* at most one request or result is queued; a request is with the evaluator
\* (queued for it, or being evaluated) or its result is queued only while the
\* reader is blocked in its pop, and then it is in exactly one of these places
OneRequestInFlight ==
    /\ Len(iqueue) + Len(oqueue) <= 1
    /\ cpc = "eval" => (rpc = "pop" /\ iqueue = <<>> /\ oqueue = <<>>)
    /\ rpc # "pop" => (cpc # "eval" /\ iqueue = <<>> /\ oqueue = <<>>)
    /\ rpc = "pop" => Len(iqueue) + Len(oqueue) + (IF cpc = "eval" THEN 1 ELSE 0) = 1
    /\ Len(pushed) = Len(popped) + (IF rpc = "pop" THEN 1 ELSE 0)

\* the reader pushes a line only when every line it pushed before has had its
\* result popped
PushAfterPop == pushed' # pushed => Len(popped) = Len(pushed)

\* the interpreter changes only in a step of the evaluator thread, taken while
\* the reader is blocked
OnlyEvaluatorUsesInterp == interp' # interp => (cpc = "eval" /\ cpc' = "wait" /\ rpc = "pop")

\* C19: in every reachable state of the REPL the two queues together hold at
\* most one element, and the reader and the evaluator are never both active on
\* the same request: the reader pushes a line only after it popped the result
\* of the previous one, and only the evaluator thread changes the interpreter.
C19_ReaderAndEvaluatorAlternate ==
    /\ []OneRequestInFlight
    /\ [][PushAfterPop /\ OnlyEvaluatorUsesInterp]_vars

\* the evaluator holds the second request, after the first changed the
\* interpreter and had its result popped; the reader is blocked
C19_Witness ==
    /\ cpc = "eval" /\ rpc = "pop"
    /\ iqueue = <<>> /\ oqueue = <<>>
    /\ Len(pushed) = 2 /\ Len(popped) = 1
    /\ interp # DefaultEnv

====
